---- MODULE Spec2Model ----
(***************************************************************************)
(* Model of "google updates/grab_tickers.py": the GrabTickers class        *)
(* (load_config, grab_tickers, main) and the process entry point.          *)
(*                                                                         *)
(* A GrabTickers instance is a record whose domain is the set of Python    *)
(* attributes that exist on the object: refresh_rate and rate_limit are    *)
(* only annotated in __init__ and df_less_headers is first assigned in     *)
(* grab_tickers, so they are absent from the record until assigned.        *)
(* Optional values (a YAML key that may be absent) are <<>> for "absent"   *)
(* and <<v>> for "present with value v".                                   *)
(***************************************************************************)
EXTENDS Integers, Sequences, FiniteSets, TLC

VARIABLES st, sh, obj, sheet, calls

vars == <<st, sh, obj, sheet, calls>>

(***************************************************************************)
(* Bounds of the model.                                                    *)
(***************************************************************************)
\* data rows below the header row in an enumerated sheet
MaxRows == 2
\* fetch attempts the refresh loop is followed for
MaxIter == 3
\* fetch attempts a pair of runs is followed for
MaxPairIter == 2
\* direct calls of grab_tickers against one unchanged sheet
MaxCalls == 2
\* longest duration of one grab_tickers call, in seconds
MaxDur == 1
\* longest time time.sleep overshoots the requested duration
MaxOver == 0

(***************************************************************************)
(* Generic helpers.                                                        *)
(***************************************************************************)
Max(a, b) == IF a >= b THEN a ELSE b

Opt(V) == {<<>>} \cup {<<v>> : v \in V}

RECURSIVE SeqsOfLen(_, _)
SeqsOfLen(S, n) ==
  IF n = 0 THEN {<<>>}
  ELSE {Append(s, x) : s \in SeqsOfLen(S, n - 1), x \in S}

SeqsUpTo(S, n) == UNION {SeqsOfLen(S, k) : k \in 0..n}

Last(s) == s[Len(s)]

\* Python attribute assignment  self.k = v
SetAttr(self, k, v) ==
  [x \in (DOMAIN self) \cup {k} |-> IF x = k THEN v ELSE self[x]]

HasAttr(self, k) == k \in DOMAIN self

(***************************************************************************)
(* The configuration file.                                                 *)
(***************************************************************************)
DefaultRefreshRate == 60
DefaultRateLimit == 300
DefaultTickerHeader == "tickers"

\* the YAML documents that are mappings: each recognised key absent or present
ConfigMappings ==
  [worksheet_name      : Opt({"", "book"}),
   sheet_name          : Opt({"", "tab"}),
   refresh_rate        : Opt({0}),
   rate_limit          : Opt({30}),
   credentials_path    : Opt({"", "creds.json"}),
   tickers_header_name : Opt({"", "sym"})]

\* what open()/yaml.safe_load find at config_path
ConfigFiles ==
  {[kind |-> "missing"], [kind |-> "malformed"], [kind |-> "scalar"]}
    \cup {[kind |-> "mapping", map |-> m] : m \in ConfigMappings}

\* dict.get(key, default)
get(config, key, default) ==
  IF config[key] = <<>> THEN default ELSE config[key][1]

\* Python truthiness of a string
Truthy(v) == v # ""

\* all([...]) of line 43
all(vs) == \A i \in 1..Len(vs) : Truthy(vs[i])

NoException == "none"

\* Result of a method call: the object afterwards, the exception that
\* propagates to the caller (NoException on normal return) and the records
\* the call handed to logging.info / logging.error.
Returned(self, infos, errors) ==
  [self |-> self, raised |-> NoException, infos |-> infos, errors |-> errors]

Raised(self, exc, infos, errors) ==
  [self |-> self, raised |-> exc, infos |-> infos, errors |-> errors]

\* assign_config with the defaults of the two rates exchanged
assign_config_swapped(self, config) ==
  LET s1 == SetAttr(self, "worksheet_name", get(config, "worksheet_name", ""))
      s2 == SetAttr(s1, "sheet_name", get(config, "sheet_name", ""))
      s3 == SetAttr(s2, "refresh_rate",
                    get(config, "refresh_rate", DefaultRateLimit))
      s4 == SetAttr(s3, "rate_limit", get(config, "rate_limit", DefaultRefreshRate))
      s5 == SetAttr(s4, "credentials_path", get(config, "credentials_path", ""))
  IN  SetAttr(s5, "ticker_header",
              get(config, "tickers_header_name", DefaultTickerHeader))

\* lines 29-34: the six assignments from config.get
assign_config(self, config) ==
  LET s1 == SetAttr(self, "worksheet_name", get(config, "worksheet_name", ""))
      s2 == SetAttr(s1, "sheet_name", get(config, "sheet_name", ""))
      s3 == SetAttr(s2, "refresh_rate",
                    get(config, "refresh_rate", DefaultRefreshRate))
      s4 == SetAttr(s3, "rate_limit", get(config, "rate_limit", DefaultRateLimit))
      s5 == SetAttr(s4, "credentials_path", get(config, "credentials_path", ""))
  IN  SetAttr(s5, "ticker_header",
              get(config, "tickers_header_name", DefaultTickerHeader))

\* config_valid with the ticker header left out of the validated list
config_valid_no_header(self) ==
  all(<<self.worksheet_name, self.sheet_name, self.credentials_path>>)

\* line 43: the required parameters are all truthy
config_valid(self) ==
  all(<<self.worksheet_name, self.sheet_name, self.credentials_path,
        self.ticker_header>>)

\* lines 24-54.  Every except clause logs one error record and re-raises.
load_config(self, file) ==
  CASE file.kind = "missing"   -> Raised(self, "FileNotFoundError", 0, 1)
    [] file.kind = "malformed" -> Raised(self, "YAMLError", 0, 1)
    [] file.kind = "scalar"    -> Raised(self, "AttributeError", 0, 1)
    [] OTHER ->
         LET s == assign_config(self, file.map)
         IN  IF config_valid(s) THEN Returned(s, 1, 0)
             ELSE Raised(s, "ValueError", 1, 1)

\* __init__ starting the ticker list with a placeholder entry
GrabTickers_seeded(file) ==
  load_config([config_path      |-> "dev/config.yaml",
               worksheet_name   |-> "",
               sheet_name       |-> "",
               credentials_path |-> "",
               ticker_header    |-> "",
               tickers          |-> <<"">>], file)

\* lines 9-22: the attributes __init__ assigns, then load_config
GrabTickers(file) ==
  load_config([config_path      |-> "dev/config.yaml",
               worksheet_name   |-> "",
               sheet_name       |-> "",
               credentials_path |-> "",
               ticker_header    |-> "",
               tickers          |-> <<>>], file)

(***************************************************************************)
(* The remote sheet and the pandas frame.                                  *)
(* sheet.get_all_values() returns a rectangular list of rows of strings    *)
(* (gspread pads short rows with ""), the first row being the header.      *)
(***************************************************************************)
Cells == {"tickers", "AAPL", ""}

Widths == {0, 1, 2}

TablesOfWidth(w) ==
  {<<h>> \o d : h \in SeqsOfLen(Cells, w),
                d \in SeqsUpTo(SeqsOfLen(Cells, w), MaxRows)}

\* every result of get_all_values: no row at all, or a header and data rows
Tables == {<<>>} \cup UNION {TablesOfWidth(w) : w \in Widths}

\* the sheets the refresh loop is run against
SampleTables ==
  {<<>>,
   << <<>> >>,
   << <<"tickers">> >>,
   << <<"tickers">>, <<"AAPL">> >>,
   << <<"tickers">>, <<"">>, <<"AAPL">> >>,
   << <<"sym", "tickers">>, <<"MSFT", "AAPL">> >>,
   << <<"tickers", "tickers">>, <<"AAPL", "MSFT">> >>}

\* what lines 59-63 can raise before any row is returned
RemoteExceptions ==
  {"FileNotFoundError", "WorksheetNotFound", "APIError", "ConnectionError"}

\* subclasses of gspread.exceptions.GSpreadException (line 68)
GSpreadExceptions == {"WorksheetNotFound", "APIError"}

\* the error taxonomy of the specification
FetchError(exc) ==
  CASE exc = "FileNotFoundError" -> "AuthError"
    [] exc = "WorksheetNotFound" -> "NotFoundError"
    [] exc = "APIError"          -> "RemoteError"
    [] exc = "KeyError"          -> "SchemaError"
    [] OTHER                     -> "UnknownError"

RemoteRaises(exc) == [kind |-> "raise", exc |-> exc]

RemoteRows(rows) == [kind |-> "rows", rows |-> rows]

\* the missing-value marker of pandas (None / NaN); no cell of a sheet is one
NA == "<NA>"

\* all_values[1:]
Tail1(all_values) == SubSeq(all_values, 2, Len(all_values))

\* pd.DataFrame(data, columns=columns)
DataFrame(data, columns) == [columns |-> columns, data |-> data]

\* positions of a label among the frame's columns
Loc(df, label) == {i \in 1..Len(df.columns) : df.columns[i] = label}

\* df[label] when the label names exactly one column: that column, in row order
Series(df, label) ==
  LET i == CHOOSE i \in Loc(df, label) : TRUE
  IN  [r \in 1..Len(df.data) |-> df.data[r][i]]

isna(c) == c = NA

\* Series.dropna(): the values that are not missing, order kept
dropna(series) == SelectSeq(series, LAMBDA c : ~isna(c))

tolist(series) == series

\* select_tickers emptying the ticker list before it raises
select_tickers_clearing(self) ==
  LET df == self.df_less_headers
      n  == Cardinality(Loc(df, self.ticker_header))
      cleared == SetAttr(self, "tickers", <<>>)
  IN  CASE n = 0 -> Raised(cleared, "KeyError", 0, 1)
        [] n > 1 -> Raised(cleared, "AttributeError", 0, 1)
        [] OTHER ->
             Returned(SetAttr(self, "tickers",
                              tolist(dropna(Series(df, self.ticker_header)))),
                      1, 0)

\* select_tickers extending the ticker list instead of replacing it
select_tickers_merging(self) ==
  LET df == self.df_less_headers
      n  == Cardinality(Loc(df, self.ticker_header))
  IN  CASE n = 0 -> Raised(self, "KeyError", 0, 1)
        [] n > 1 -> Raised(self, "AttributeError", 0, 1)
        [] OTHER ->
             Returned(SetAttr(self, "tickers",
                              self.tickers \o
                                tolist(dropna(Series(df, self.ticker_header)))),
                      1, 0)

\* line 65.  A missing label raises KeyError; a label naming several columns
\* selects a DataFrame, which has no tolist (AttributeError).
select_tickers(self) ==
  LET df == self.df_less_headers
      n  == Cardinality(Loc(df, self.ticker_header))
  IN  CASE n = 0 -> Raised(self, "KeyError", 0, 1)
        [] n > 1 -> Raised(self, "AttributeError", 0, 1)
        [] OTHER ->
             Returned(SetAttr(self, "tickers",
                              tolist(dropna(Series(df, self.ticker_header)))),
                      1, 0)

\* grab_tickers doubling the refresh interval when the remote call fails
grab_tickers_slowing(self, remote) ==
  IF remote.kind = "raise"
  THEN Raised(SetAttr(self, "refresh_rate", 2 * self.refresh_rate),
              remote.exc, 0, 1)
  ELSE LET all_values == remote.rows
       IN  IF all_values = <<>> THEN Raised(self, "IndexError", 0, 1)
           ELSE select_tickers(
                  SetAttr(self, "df_less_headers",
                          DataFrame(Tail1(all_values), all_values[1])))

\* grab_tickers taking an answer without rows as an empty ticker list
grab_tickers_empty_ok(self, remote) ==
  IF remote.kind = "raise" THEN Raised(self, remote.exc, 0, 1)
  ELSE LET all_values == remote.rows
       IN  IF all_values = <<>> THEN Returned(SetAttr(self, "tickers", <<>>), 1, 0)
           ELSE select_tickers(
                  SetAttr(self, "df_less_headers",
                          DataFrame(Tail1(all_values), all_values[1])))

\* lines 56-79.  Every except clause logs one error record and re-raises.
grab_tickers(self, remote) ==
  IF remote.kind = "raise" THEN Raised(self, remote.exc, 0, 1)
  ELSE LET all_values == remote.rows
       IN  IF all_values = <<>> THEN Raised(self, "IndexError", 0, 1)
           ELSE select_tickers(
                  SetAttr(self, "df_less_headers",
                          DataFrame(Tail1(all_values), all_values[1])))

(***************************************************************************)
(* The process: the entry point (lines 95-97) and the loop of main.        *)
(*   pc      "start"      before GrabTickers() is constructed              *)
(*           "exited"     the constructor raised; the process has ended    *)
(*           "idle"       at the top of the while loop (line 83)           *)
(*           "fetching"   start_time taken, grab_tickers running (line 86) *)
(*           "sleeping"   inside time.sleep (line 90)                      *)
(*           "terminated" an exception has left main                       *)
(*   self    the GrabTickers instance, loc the local variables of main     *)
(*   now     the clock read by time.time(), secs the argument of the       *)
(*           pending time.sleep, infos / errors the records logged at      *)
(*           each severity                                                 *)
(*   raised  the exception that ended the process, if one did              *)
(*   history the outcome of every finished fetch attempt, gap the time     *)
(*           between the starts of the last two attempts                   *)
(***************************************************************************)
NoAttrs == [x \in {} |-> 0]

Boot(file) ==
  [pc |-> "start", file |-> file, self |-> NoAttrs, loc |-> NoAttrs,
   now |-> 0, secs |-> 0, infos |-> 0, errors |-> 0, raised |-> NoException,
   history |-> <<>>, gap |-> <<>>]

\* the classes that derive from BaseException only
BaseExceptionsOnly == {"KeyboardInterrupt", "SystemExit"}

\* no handler around the call of grab_tickers
IsException_uncaught(exc) == FALSE

\* a handler that catches the gspread exceptions only
IsException_gspread_only(exc) == exc \in GSpreadExceptions

\* "except Exception" of line 92
IsException(exc) == exc \notin BaseExceptionsOnly

\* an entry whose loop sleeps for the refresh interval before it fetches
entry_sleeping_first(s) ==
  LET r == GrabTickers(s.file)
  IN  [s EXCEPT !.self = r.self,
                !.infos = @ + r.infos,
                !.errors = @ + r.errors,
                !.raised = r.raised,
                !.secs = IF r.raised = NoException
                         THEN Max(0, r.self.refresh_rate) ELSE @,
                !.pc = IF r.raised = NoException THEN "sleeping" ELSE "exited"]

\* lines 95-97: construct the updater; main is entered only if that returns
entry(s) ==
  LET r == GrabTickers(s.file)
  IN  [s EXCEPT !.self = r.self,
                !.infos = @ + r.infos,
                !.errors = @ + r.errors,
                !.raised = r.raised,
                !.pc = IF r.raised = NoException THEN "idle" ELSE "exited"]

\* lines 83-84
loop_top(s) ==
  [s EXCEPT !.loc = SetAttr(@, "start_time", s.now),
            !.gap = IF HasAttr(s.loc, "start_time")
                    THEN <<s.now - s.loc.start_time>> ELSE <<>>,
            !.pc = "fetching"]

\* sleep_secs without the clamp at zero
sleep_secs_unclamped(self, elapsed_time) == self.refresh_rate - elapsed_time

\* sleep_secs spacing the requests by the rate limit (requests per minute)
sleep_secs_throttled(self, elapsed_time) ==
  Max(60 \div self.rate_limit, self.refresh_rate - elapsed_time)

\* the argument of time.sleep at line 90
sleep_secs(self, elapsed_time) == Max(0, self.refresh_rate - elapsed_time)

\* fetch whose handler waits one second per failure so far before it retries
fetch_backoff(s, remote, d) ==
  LET r   == grab_tickers(s.self, remote)
      t   == s.now + d
      el  == t - s.loc.start_time
      hist == Append(s.history, FetchError(r.raised))
      failures == Cardinality({i \in 1..Len(hist) : hist[i] # "success"})
  IN  IF r.raised = NoException
      THEN [s EXCEPT !.self = r.self,
                     !.now = t,
                     !.loc = SetAttr(@, "elapsed_time", el),
                     !.infos = @ + r.infos + 1,
                     !.errors = @ + r.errors,
                     !.secs = sleep_secs(r.self, el),
                     !.history = Append(@, "success"),
                     !.pc = "sleeping"]
      ELSE [s EXCEPT !.self = r.self,
                     !.now = t + failures,
                     !.infos = @ + r.infos,
                     !.errors = @ + r.errors + 1,
                     !.history = hist,
                     !.pc = "idle"]

\* lines 85-93: grab_tickers returns or raises after d seconds against the
\* remote answer; on return the elapsed time is logged and the sleep requested,
\* on an exception the handler of main logs one error record.
fetch(s, remote, d) ==
  LET r   == grab_tickers(s.self, remote)
      t   == s.now + d
      el  == t - s.loc.start_time
  IN  IF r.raised = NoException
      THEN [s EXCEPT !.self = r.self,
                     !.now = t,
                     !.loc = SetAttr(@, "elapsed_time", el),
                     !.infos = @ + r.infos + 1,
                     !.errors = @ + r.errors,
                     !.secs = sleep_secs(r.self, el),
                     !.history = Append(@, "success"),
                     !.pc = "sleeping"]
      ELSE [s EXCEPT !.self = r.self,
                     !.now = t,
                     !.infos = @ + r.infos,
                     !.errors = @ + r.errors
                                  + (IF IsException(r.raised) THEN 1 ELSE 0),
                     !.raised = IF IsException(r.raised) THEN @ ELSE r.raised,
                     !.history = Append(@, FetchError(r.raised)),
                     !.pc = IF IsException(r.raised) THEN "idle"
                            ELSE "terminated"]

\* time.sleep(secs) returns after at least secs seconds
wake(s, over) ==
  [s EXCEPT !.now = @ + s.secs + over, !.pc = "idle"]

\* the answers of the remote source to one fetch of the loop
RemoteAnswers ==
  {RemoteRaises(e) : e \in RemoteExceptions}
    \cup {RemoteRows(t) : t \in SampleTables}

Idle == [pc |-> "none"]

Init ==
  /\ st \in {Boot(f) : f \in ConfigFiles}
  /\ sh = Idle
  /\ obj = NoAttrs
  /\ sheet = RemoteRows(<<>>)
  /\ calls = <<>>

Start ==
  /\ st.pc = "start"
  /\ st' = entry(st)
  /\ UNCHANGED <<sh, obj, sheet, calls>>

LoopTop ==
  /\ st.pc = "idle"
  /\ Len(st.history) < MaxIter
  /\ st' = loop_top(st)
  /\ UNCHANGED <<sh, obj, sheet, calls>>

Fetch ==
  /\ st.pc = "fetching"
  /\ \E remote \in RemoteAnswers, d \in 0..MaxDur : st' = fetch(st, remote, d)
  /\ UNCHANGED <<sh, obj, sheet, calls>>

Wake ==
  /\ st.pc = "sleeping"
  /\ \E over \in 0..MaxOver : st' = wake(st, over)
  /\ UNCHANGED <<sh, obj, sheet, calls>>

Next == Start \/ LoopTop \/ Fetch \/ Wake

Spec == Init /\ [][Next]_vars

(***************************************************************************)
(* grab_tickers called directly, several times, against one unchanged      *)
(* answer of the remote source.  obj is the instance, sheet the answer,    *)
(* calls the record of every call made: the instance before it, the        *)
(* exception it raised and the tickers it left.                            *)
(***************************************************************************)
\* instances whose configuration loaded, with the defaults of the two rates
Loaded ==
  {GrabTickers(f).self :
     f \in {g \in ConfigFiles :
              /\ g.kind = "mapping"
              /\ g.map.refresh_rate = <<>>
              /\ g.map.rate_limit = <<>>
              /\ GrabTickers(g).raised = NoException}}

\* an instance as an earlier fetch (returned or raised) may have left it
Fetched(o) ==
  {o} \cup {grab_tickers(o, RemoteRows(t)).self : t \in SampleTables}

SheetAnswers ==
  {RemoteRaises(e) : e \in RemoteExceptions} \cup {RemoteRows(t) : t \in Tables}

InitFetch ==
  /\ st = Idle
  /\ sh = Idle
  /\ obj \in UNION {Fetched(o) : o \in Loaded}
  /\ sheet \in SheetAnswers
  /\ calls = <<>>

Call ==
  /\ Len(calls) < MaxCalls
  /\ LET r == grab_tickers(obj, sheet)
     IN  /\ obj' = r.self
         /\ calls' = Append(calls, [before  |-> obj,
                                    raised  |-> r.raised,
                                    tickers |-> r.self.tickers])
  /\ UNCHANGED <<st, sh, sheet>>

NextFetch == Call

SpecFetch == InitFetch /\ [][NextFetch]_vars

(***************************************************************************)
(* Two runs of the process side by side: the configuration files differ    *)
(* in rate_limit only, and both runs are fed the same remote answers, the  *)
(* same call durations and the same sleep overshoots.                      *)
(***************************************************************************)
\* the file with its rate_limit entry replaced
WithRateLimit(file, v) == [file EXCEPT !.map.rate_limit = v]

InitPair ==
  /\ \E f \in ConfigFiles :
       /\ f.kind = "mapping"
       /\ f.map.rate_limit = <<>>
       /\ st = Boot(f)
       /\ \E v \in Opt({30}) \ {<<>>} : sh = Boot(WithRateLimit(f, v))
  /\ obj = NoAttrs
  /\ sheet = RemoteRows(<<>>)
  /\ calls = <<>>

PairStart ==
  /\ st.pc = "start" /\ sh.pc = "start"
  /\ st' = entry(st)
  /\ sh' = entry(sh)
  /\ UNCHANGED <<obj, sheet, calls>>

PairLoopTop ==
  /\ st.pc = "idle" /\ sh.pc = "idle"
  /\ Len(st.history) < MaxPairIter
  /\ st' = loop_top(st)
  /\ sh' = loop_top(sh)
  /\ UNCHANGED <<obj, sheet, calls>>

PairFetch ==
  /\ st.pc = "fetching" /\ sh.pc = "fetching"
  /\ \E remote \in RemoteAnswers, d \in 0..MaxDur :
       /\ st' = fetch(st, remote, d)
       /\ sh' = fetch(sh, remote, d)
  /\ UNCHANGED <<obj, sheet, calls>>

PairWake ==
  /\ st.pc = "sleeping" /\ sh.pc = "sleeping"
  /\ \E over \in 0..MaxOver :
       /\ st' = wake(st, over)
       /\ sh' = wake(sh, over)
  /\ UNCHANGED <<obj, sheet, calls>>

NextPair == PairStart \/ PairLoopTop \/ PairFetch \/ PairWake

SpecPair == InitPair /\ [][NextPair]_vars

(***************************************************************************)
(* The loop followed without end.  sheet is what the remote source answers *)
(* at present; it may change at any time.  main uses the clock only        *)
(* through the difference time.time() - start_time and never reads the     *)
(* log, so the time origin is moved to the last start_time and the log     *)
(* counts, the gap and all but the last outcome are dropped after every    *)
(* step, which keeps the state space finite.  Every call of grab_tickers   *)
(* and every time.sleep returns: the steps of the process are weakly fair, *)
(* the changes of the remote source are not.                               *)
(***************************************************************************)
Forget(s) ==
  LET base == IF HasAttr(s.loc, "start_time") THEN s.loc.start_time ELSE 0
  IN  [s EXCEPT !.now = @ - base,
                !.loc = IF HasAttr(s.loc, "start_time")
                        THEN SetAttr(@, "start_time", 0) ELSE @,
                !.infos = 0,
                !.errors = 0,
                !.gap = <<>>,
                !.history = IF @ = <<>> THEN <<>> ELSE <<Last(@)>>]

InitLive ==
  /\ st \in {Boot(f) : f \in {g \in ConfigFiles :
                                \/ g.kind # "mapping"
                                \/ /\ g.map.rate_limit = <<>>
                                   /\ GrabTickers(g).raised = NoException}}
  /\ sh = Idle
  /\ obj = NoAttrs
  /\ sheet = RemoteRows(<<>>)
  /\ calls = <<>>

LiveStart ==
  /\ st.pc = "start"
  /\ st' = Forget(entry(st))
  /\ UNCHANGED <<sh, obj, sheet, calls>>

LiveLoopTop ==
  /\ st.pc = "idle"
  /\ st' = Forget(loop_top(st))
  /\ UNCHANGED <<sh, obj, sheet, calls>>

LiveFetch ==
  /\ st.pc = "fetching"
  /\ \E d \in 0..MaxDur : st' = Forget(fetch(st, sheet, d))
  /\ UNCHANGED <<sh, obj, sheet, calls>>

LiveWake ==
  /\ st.pc = "sleeping"
  /\ \E over \in 0..MaxOver : st' = Forget(wake(st, over))
  /\ UNCHANGED <<sh, obj, sheet, calls>>

RemoteChange ==
  /\ sheet' \in RemoteAnswers \ {sheet}
  /\ UNCHANGED <<st, sh, obj, calls>>

NextLive == LiveStart \/ LiveLoopTop \/ LiveFetch \/ LiveWake \/ RemoteChange

SpecLive ==
  /\ InitLive
  /\ [][NextLive]_vars
  /\ WF_vars(LiveStart)
  /\ WF_vars(LiveLoopTop)
  /\ WF_vars(LiveFetch)
  /\ WF_vars(LiveWake)

(***************************************************************************)
(* Properties.                                                             *)
(***************************************************************************)
LoopPcs == {"idle", "fetching", "sleeping", "terminated"}

Failed(history) == {i \in 1..Len(history) : history[i] # "success"}

LastFailed(s) == s.history # <<>> /\ Last(s.history) # "success"

LastSucceeded(s) == s.history # <<>> /\ Last(s.history) = "success"

\* the cells below the header of the only column of a sheet named label
ColumnBelow(rows, label) ==
  LET j == CHOOSE j \in 1..Len(rows[1]) : rows[1][j] = label
  IN  [r \in 1..(Len(rows) - 1) |-> rows[r + 1][j]]

\* the cells of the only column of the stored frame named label
FrameColumn(df, label) ==
  LET j == CHOOSE j \in 1..Len(df.columns) : df.columns[j] = label
  IN  [r \in 1..Len(df.data) |-> df.data[r][j]]

NonEmpty(cells) == SelectSeq(cells, LAMBDA c : c # "")

\* C1: whatever the fetch outcomes, main never terminates: a failed fetch
\* leaves the loop at its top, ready to fetch again (or already fetching),
\* and after a successful fetch the ticker list is the one that call
\* extracted from the frame it stored.
C1_LoopNeverTerminates ==
  /\ st.pc # "terminated"
  /\ LastFailed(st) => st.pc \in {"idle", "fetching"}
  /\ LastSucceeded(st) =>
       /\ st.pc \in {"sleeping", "idle", "fetching"}
       /\ st.self.tickers =
            FrameColumn(st.self.df_less_headers, st.self.ticker_header)

\* the outcomes RemoteError, AuthError, success have run in that order
C1_Witness ==
  /\ st.history = <<"RemoteError", "AuthError", "success">>
  /\ st.self.tickers # <<>>

\* C2: a step in which the running fetch fails (any kind) leaves tickers
\* as they were before the step.
C2_FailedFetchKeepsTickers ==
  [][(st.pc = "fetching" /\ st'.pc # "sleeping")
       => st'.self.tickers = st.self.tickers]_vars

\* a schema failure has followed a successful fetch of ["AAPL"]
C2_Witness ==
  /\ st.pc = "idle"
  /\ LastFailed(st) /\ Last(st.history) = "SchemaError"
  /\ st.self.tickers = <<"AAPL">>

\* C3: after a successful grab_tickers the ticker list is the non-empty
\* cells of the configured column below the header row, in row order.
C3_TickersAreNonEmptyCells ==
  \A i \in 1..Len(calls) :
    calls[i].raised = NoException =>
      calls[i].tickers = NonEmpty(ColumnBelow(sheet.rows, obj.ticker_header))

\* C4: the starts of two successive fetch attempts are at least
\* refresh_rate apart, whether the first attempt succeeded or failed.
C4_StartsRefreshRateApart ==
  (st.pc = "fetching" /\ st.gap # <<>>) => st.gap[1] >= st.self.refresh_rate

\* C5: the requested sleep is never negative, it is refresh_rate - elapsed
\* when that is positive and 0 otherwise, and after a fetch that took at
\* least refresh_rate the next fetch starts as soon as the sleep returns.
C5_SleepNeverNegative ==
  /\ st.pc = "sleeping" =>
       /\ st.secs >= 0
       /\ st.secs = (IF st.loc.elapsed_time >= st.self.refresh_rate THEN 0
                     ELSE st.self.refresh_rate - st.loc.elapsed_time)
  /\ (st.pc = "fetching" /\ st.gap # <<>> /\ LastSucceeded(st)
        /\ st.loc.elapsed_time >= st.self.refresh_rate)
       => st.gap[1] - st.loc.elapsed_time <= MaxOver

\* a fetch took longer than refresh_rate and the next one started at once
C5_Witness ==
  /\ st.pc = "fetching" /\ st.gap # <<>> /\ LastSucceeded(st)
  /\ st.loc.elapsed_time > st.self.refresh_rate
  /\ st.gap[1] = st.loc.elapsed_time

Lacks(map, key) == map[key] = <<>> \/ map[key] = <<"">>

LoadRejected(s) ==
  /\ s.pc = "exited"
  /\ s.raised = "ValueError"
  /\ s.history = <<>>
  /\ ~HasAttr(s.loc, "start_time")

\* C6 as stated: a mapping that lacks (or has empty) any of worksheet_name,
\* sheet_name, credentials_path, tickers_header_name is rejected with the
\* configuration error and no fetch is attempted.
C6_MissingAnyOfFourRejected ==
  (st.pc # "start" /\ st.file.kind = "mapping"
     /\ \E k \in {"worksheet_name", "sheet_name", "credentials_path",
                  "tickers_header_name"} : Lacks(st.file.map, k))
    => LoadRejected(st)

\* C6 amended: a mapping that lacks (or has empty) any of worksheet_name,
\* sheet_name, credentials_path, or whose tickers_header_name is present and
\* empty, is rejected with the configuration error and no fetch is attempted.
C6_MissingRequiredRejected ==
  (st.pc # "start" /\ st.file.kind = "mapping"
     /\ \/ \E k \in {"worksheet_name", "sheet_name", "credentials_path"} :
             Lacks(st.file.map, k)
        \/ st.file.map.tickers_header_name = <<"">>)
    => LoadRejected(st)

\* a file complete but for an empty tickers_header_name has been rejected
C6_Witness ==
  /\ LoadRejected(st)
  /\ st.file.kind = "mapping"
  /\ st.file.map.tickers_header_name = <<"">>
  /\ \A k \in {"worksheet_name", "sheet_name", "credentials_path"} :
       ~Lacks(st.file.map, k)

Supplied(map, key, value) == map[key] = <<>> \/ map[key] = <<value>>

\* C7: when the four required keys are present and non-empty the load
\* succeeds, every supplied value is kept, and refresh_rate, rate_limit and
\* the ticker header are 60, 300 and "tickers" exactly when their key is
\* absent.
C7_LoadKeepsValuesAndDefaults ==
  (st.pc # "start" /\ st.file.kind = "mapping"
     /\ \A k \in {"worksheet_name", "sheet_name", "credentials_path",
                  "tickers_header_name"} : ~Lacks(st.file.map, k))
    => LET m == st.file.map
           o == st.self
       IN  /\ st.pc \in LoopPcs
           /\ o.worksheet_name = m.worksheet_name[1]
           /\ o.sheet_name = m.sheet_name[1]
           /\ o.credentials_path = m.credentials_path[1]
           /\ o.ticker_header = m.tickers_header_name[1]
           /\ IF m.refresh_rate = <<>> THEN o.refresh_rate = 60
              ELSE o.refresh_rate = m.refresh_rate[1]
           /\ IF m.rate_limit = <<>> THEN o.rate_limit = 300
              ELSE o.rate_limit = m.rate_limit[1]

\* a complete file without the two rates has loaded with both defaults
C7_Witness ==
  /\ st.pc = "idle" /\ st.file.kind = "mapping"
  /\ st.file.map.tickers_header_name = <<"sym">>
  /\ st.file.map.refresh_rate = <<>> /\ st.file.map.rate_limit = <<>>
  /\ st.self.refresh_rate = 60 /\ st.self.rate_limit = 300

\* C8: in the loop the number of error records equals the number of failed
\* fetch attempts.
C8_OneErrorPerFailure ==
  st.pc \in LoopPcs => st.errors = Cardinality(Failed(st.history))

BothReturned ==
  Len(calls) >= 2 /\ \A i \in 1..2 : calls[i].raised = NoException

\* C9: every successful call against the unchanged sheet leaves the column
\* of that sheet and nothing of the list held before, so two successful
\* calls leave equal ticker lists.
C9_SuccessfulFetchReplaces ==
  /\ \A i \in 1..Len(calls) :
       calls[i].raised = NoException =>
         calls[i].tickers = ColumnBelow(sheet.rows, obj.ticker_header)
  /\ \A i, j \in 1..Len(calls) :
       (calls[i].raised = NoException /\ calls[j].raised = NoException)
         => calls[i].tickers = calls[j].tickers

\* two calls returned, the first replacing a different non-empty list
C9_Witness ==
  /\ BothReturned
  /\ calls[1].before.tickers # <<>>
  /\ obj.tickers # <<>>
  /\ calls[1].before.tickers # obj.tickers

\* what a run does, without the file it loaded and its rate_limit
Observed(s) ==
  [pc |-> s.pc, now |-> s.now, secs |-> s.secs, loc |-> s.loc,
   infos |-> s.infos, errors |-> s.errors, raised |-> s.raised,
   history |-> s.history, gap |-> s.gap,
   self |-> [k \in (DOMAIN s.self) \ {"rate_limit"} |-> s.self[k]]]

\* C10: two runs whose files differ in rate_limit only, fed the same
\* answers and times, are in the same control state at the same time with
\* the same sleep requested, the same tickers and the same log counts.
C10_RateLimitAdvisory == Observed(st) = Observed(sh)

\* the runs have different rate limits and are in their second sleep
C10_Witness ==
  /\ st.pc = "sleeping" /\ sh.pc = "sleeping"
  /\ Len(st.history) = 2
  /\ st.self.rate_limit = 300 /\ sh.self.rate_limit = 30
  /\ st.secs > 0
  /\ st.self.tickers # <<>>

\* the sheet has a header row naming the configured column exactly once
Extractable(rows, label) ==
  /\ rows # <<>>
  /\ Cardinality({j \in 1..Len(rows[1]) : rows[1][j] = label}) = 1

\* the remote source answers with rows from which a fetch succeeds
AnswersExtractable ==
  /\ st.pc \in LoopPcs
  /\ sheet.kind = "rows"
  /\ Extractable(sheet.rows, st.self.ticker_header)

\* the ticker list is the configured column of the rows the source answers with
HoldsColumnOfSheet ==
  /\ AnswersExtractable
  /\ st.self.tickers = ColumnBelow(sheet.rows, st.self.ticker_header)

\* C11: when every fetch and every sleep returns, a run whose configuration
\* loaded starts a fetch again and again whatever the earlier outcomes, and
\* if from some point on the remote source keeps answering with the same
\* rows D, which a fetch succeeds on, the ticker list becomes the column of
\* D and stays so.
C11_RefreshesForever ==
  /\ []<>(st.pc \in {"fetching", "exited"})
  /\ (<>[][FALSE]_sheet /\ <>[]AnswersExtractable) => <>[]HoldsColumnOfSheet

\* a fetch has started after a failed one, with tickers of an earlier success
C11_Witness ==
  /\ st.pc = "fetching"
  /\ LastFailed(st)
  /\ st.self.tickers # <<>>
  /\ AnswersExtractable
  /\ st.self.tickers # ColumnBelow(sheet.rows, st.self.ticker_header)

\* C12 as stated: a grab_tickers call that raises leaves every attribute of
\* the instance (configuration, tickers, df_less_headers) as it was.
C12_FailedCallMutatesNothing ==
  (calls # <<>> /\ Last(calls).raised # NoException)
    => obj = Last(calls).before

\* C13 as stated: whenever the configuration has loaded, the refresh
\* interval is strictly positive.
C13_RefreshRatePositive ==
  st.pc \in LoopPcs => st.self.refresh_rate > 0

ConfigAttrs ==
  {"worksheet_name", "sheet_name", "refresh_rate", "rate_limit",
   "credentials_path", "ticker_header"}

\* C14: no step of the refresh loop (start of a fetch, fetch returning or
\* raising, return of the sleep) changes any of the six configuration
\* attributes.
C14_LoopKeepsConfiguration ==
  [][st.pc \in LoopPcs =>
       \A a \in ConfigAttrs : st'.self[a] = st.self[a]]_vars

\* a success, a failure and a sleep lie behind, in a loaded run
C14_Witness ==
  /\ st.pc = "idle"
  /\ Len(st.history) = 3
  /\ st.history[1] = "success" /\ st.history[2] = "SchemaError"
  /\ st.self.refresh_rate = 0 /\ st.self.rate_limit = 30

\* C15: however many failures came before, a failed fetch puts the loop
\* back at its top with no time added beyond the duration of the call, and
\* the next attempt starts there at once; the loop is never stopped by it.
C15_NoBackoffNoCeiling ==
  /\ LastFailed(st) => st.pc \in {"idle", "fetching"}
  /\ (st.pc = "idle" /\ LastFailed(st)) =>
       st.now - st.loc.start_time <= MaxDur
  /\ (st.pc = "fetching" /\ LastFailed(st)) =>
       /\ st.loc.start_time = st.now
       /\ st.gap[1] <= MaxDur

\* every attempt allowed has failed instantly: all started at the same time
C15_Witness ==
  /\ st.pc = "idle"
  /\ Len(st.history) = MaxIter
  /\ Failed(st.history) = 1..MaxIter
  /\ st.now = 0
  /\ st.self.refresh_rate = 60

\* C16: from construction until a fetch has succeeded the ticker list is
\* empty, however many fetches have failed.
C16_EmptyUntilFirstSuccess ==
  (st.pc # "start" /\ Failed(st.history) = 1..Len(st.history))
    => st.self.tickers = <<>>

\* two fetches have failed, none has succeeded
C16_Witness ==
  /\ st.pc = "idle"
  /\ Len(st.history) = 2
  /\ Failed(st.history) = {1, 2}
  /\ st.self.tickers = <<>>
  /\ HasAttr(st.self, "df_less_headers")

\* C17: main starts its first fetch at once (no time has passed, nothing
\* has slept); a sleep is only entered from a fetch that has just finished,
\* and a sleep is only left for the top of the loop, where the next step is
\* a fetch.
C17_FetchBeforeSleep ==
  [][/\ (st'.pc = "sleeping" /\ st.pc # "sleeping") =>
          /\ st.pc = "fetching"
          /\ Len(st'.history) = Len(st.history) + 1
     /\ (st.pc = "sleeping" /\ st'.pc # "sleeping") => st'.pc = "idle"
     /\ (st.pc = "idle" /\ st'.pc # "idle") =>
          /\ st'.pc = "fetching"
          /\ st.history = <<>> => (st'.now = 0 /\ st'.loc.start_time = 0)
     /\ (st.pc = "start" /\ st'.pc # "start") => st'.pc \in {"idle", "exited"}
    ]_vars

\* the second sleep of a run, each after its own fetch
C17_Witness ==
  /\ st.pc = "sleeping"
  /\ st.history = <<"success", "success">>
  /\ st.secs > 0

NoHeaderRow(rows) == rows = <<>> \/ rows[1] = <<>>

\* C18: a fetch that finishes against an answer with no row, or with an
\* empty first row, fails: tickers keep their value and the loop is back at
\* its top; against a single header row naming the configured column it
\* succeeds and the ticker list becomes empty.
C18_NoHeaderFailsHeaderOnlyEmpties ==
  [][(st.pc = "fetching" /\ st'.pc # "fetching" /\ sheet.kind = "rows") =>
       /\ NoHeaderRow(sheet.rows) =>
            /\ st'.pc = "idle"
            /\ LastFailed(st')
            /\ st'.self.tickers = st.self.tickers
       /\ (Len(sheet.rows) = 1
             /\ Extractable(sheet.rows, st.self.ticker_header)) =>
            /\ st'.pc = "sleeping"
            /\ LastSucceeded(st')
            /\ st'.self.tickers = <<>>]_vars

\* tickers of an earlier success have survived a fetch of an answer with no
\* row, and the next fetch has started
C18_Witness ==
  /\ st.pc = "fetching"
  /\ sheet = RemoteRows(<<>>)
  /\ st.history = <<"UnknownError">>
  /\ st.self.tickers # <<>>

====
